---- MODULE Spec2Model ----
(***************************************************************************)
(* SACCO bookkeeping application (streamlit_app.py): the SQLite ledger     *)
(* (users, members, savings_deposits, loans, payments), the process-wide   *)
(* members cache, and two browser sessions whose script runs interleave    *)
(* on the one shared connection.                                           *)
(*                                                                         *)
(* Python floats are modelled as exact rationals <<num, den>> (den > 0,    *)
(* lowest terms), and the zero-rate amortization schedule also bit for bit *)
(* as IEEE-754 binary64; dates as day ordinals, Today the latest.          *)
(***************************************************************************)
EXTENDS Integers, Sequences, FiniteSets, TLC

\* ------------------------------------------------------------------ bounds
MaxInserts == 2

\* ------------------------------------------------------- program constants
PBKDF2_ITERATIONS == 130000
DAYS_PER_YEAR == 365
MONTHS_PER_YEAR == 12
DUE_STEP_DAYS == 30

\* ----------------------------------------------------------- input domains
Sessions == {"A", "B"}
Dates == {0, 1}
\* date.today(): the latest day of the model
Today == CHOOSE d \in Dates : \A e \in Dates : e <= d
GoodEmail == <<"a", "@", "b", ".", "c">>
BadEmail == <<"a", "@", "b">>
Tokens == {"a1"}
Salts == {"s1"}
Frequencies == {"Daily", "Monthly"}
AnnualRateInputs == {0, 36500}
PayAmountInputs == {0, 100}

\* the "Register Member" form: two valid fillings (without and with an
\* email), and one of each invalid kind
RegisterInputs ==
    {[member_id |-> "m1", member_name |-> "Ann", email |-> << >>, registration_date |-> Today],
     [member_id |-> "m2", member_name |-> "Ann", email |-> GoodEmail, registration_date |-> Today],
     [member_id |-> "", member_name |-> "Ann", email |-> << >>, registration_date |-> Today],
     [member_id |-> "m1", member_name |-> "", email |-> << >>, registration_date |-> Today],
     [member_id |-> "m1", member_name |-> "Ann", email |-> BadEmail, registration_date |-> Today]}

\* the "Record Deposit" form: a deposit dated today, one dated earlier, and
\* one of each invalid kind
DepositInputs ==
    {[amount |-> 100, deposit_date |-> Today, deposit_rate |-> 10, transaction_id |-> "t1"],
     [amount |-> 100, deposit_date |-> 0, deposit_rate |-> 10, transaction_id |-> "t2"],
     [amount |-> 0, deposit_date |-> Today, deposit_rate |-> 10, transaction_id |-> "t1"],
     [amount |-> 100, deposit_date |-> Today, deposit_rate |-> 10, transaction_id |-> ""]}

\* the "Record Loan" form: 12 months at 12 %, 2 months at 12 % taken one
\* installment step ago, 2 months at 1200 %, 1,000 over 3 months at 0 %, and
\* one of each invalid kind
LoanInputs ==
    {[loan_amount |-> 100000, loan_period |-> 12, loan_rate |-> 12, loan_date |-> 0,
      loan_txn_id |-> "t1"],
     [loan_amount |-> 100000, loan_period |-> 2, loan_rate |-> 12,
      loan_date |-> Today - DUE_STEP_DAYS, loan_txn_id |-> "t1"],
     [loan_amount |-> 100000, loan_period |-> 2, loan_rate |-> 1200, loan_date |-> Today,
      loan_txn_id |-> "t2"],
     [loan_amount |-> 1000, loan_period |-> 3, loan_rate |-> 0, loan_date |-> Today,
      loan_txn_id |-> "t2"],
     [loan_amount |-> 0, loan_period |-> 12, loan_rate |-> 12, loan_date |-> Today,
      loan_txn_id |-> "t1"],
     [loan_amount |-> 100000, loan_period |-> 12, loan_rate |-> 12, loan_date |-> Today,
      loan_txn_id |-> ""]}

\* the text typed under "Delete Savings Transaction" / "Delete Loan Transaction"
DeleteTxnInputs ==
    {"", "t1", "t2"} \cup {"INT-" \o ToString(d) \o "-" \o k : d \in Dates, k \in Tokens}

\* the login form
UsernameInputs == {"", "admin", "bob"}
PasswordInputs == {"", "pw", "change_me_now!"}

\* the "Create User" form
CreateUserInputs ==
    {[new_username |-> u, new_password |-> "pw", new_password_confirm |-> "pw",
      new_role |-> r] : u \in {"admin", "bob"}, r \in {"admin", "teller"}}
    \cup {[new_username |-> "", new_password |-> "pw", new_password_confirm |-> "pw",
           new_role |-> "teller"],
          [new_username |-> "bob", new_password |-> "", new_password_confirm |-> "",
           new_role |-> "teller"],
          [new_username |-> "bob", new_password |-> "pw", new_password_confirm |-> "",
           new_role |-> "teller"]}

\* the "Organization Settings" form: every field changed, and the two text
\* fields left blank
SettingsInputs ==
    {[org_name |-> "Coop", currency_code |-> "KES", primary_color |-> "#000000",
      default_rate |-> 5, default_compounding |-> "Monthly"],
     [org_name |-> "", currency_code |-> "", primary_color |-> "#0f766e",
      default_rate |-> 10, default_compounding |-> "Daily"]}

\* the "Update Password" form
UpdatePasswordInputs ==
    {[change_user |-> u, new_pw1 |-> "pw", new_pw2 |-> "pw"] : u \in {"admin", "bob"}}
    \cup {[change_user |-> "", new_pw1 |-> "pw", new_pw2 |-> "pw"],
          [change_user |-> "bob", new_pw1 |-> "", new_pw2 |-> ""],
          [change_user |-> "bob", new_pw1 |-> "pw", new_pw2 |-> "x"]}

\* --------------------------------------------------------------- rationals
Abs(n) == IF n < 0 THEN -n ELSE n

RECURSIVE GCD(_, _)
GCD(a, b) == IF b = 0 THEN a ELSE GCD(b, a % b)

Norm(n, d) ==
    LET s == IF d < 0 THEN -1 ELSE 1
        g == GCD(Abs(n), Abs(d))
    IN  <<(s * n) \div g, (s * d) \div g>>

Rat(n) == <<n, 1>>
\* sums and differences are taken over the least common denominator
RatAdd(x, y) ==
    LET g == GCD(x[2], y[2])
    IN  Norm(x[1] * (y[2] \div g) + y[1] * (x[2] \div g), x[2] * (y[2] \div g))
RatSub(x, y) ==
    LET g == GCD(x[2], y[2])
    IN  Norm(x[1] * (y[2] \div g) - y[1] * (x[2] \div g), x[2] * (y[2] \div g))
RatMul(x, y) == Norm(x[1] * y[1], x[2] * y[2])
RatDiv(x, y) == Norm(x[1] * y[2], x[2] * y[1])
RatLt(x, y) == x[1] * y[2] < y[1] * x[2]
RatLe(x, y) == x[1] * y[2] <= y[1] * x[2]
RatIsInt(x) == x[2] = 1

RECURSIVE RatPowNat(_, _)
RatPowNat(b, k) == IF k = 0 THEN Rat(1) ELSE RatMul(b, RatPowNat(b, k - 1))

\* b ** e for an integer exponent e (negative: the reciprocal power)
RatPow(b, e) == IF e >= 0 THEN RatPowNat(b, e) ELSE RatDiv(Rat(1), RatPowNat(b, -e))

\* ------------------------------------------------------------------- state
VARIABLES
    users,              \* table users
    members,            \* table members
    savings_deposits,   \* table savings_deposits
    loans,              \* table loans
    payments,           \* table payments
    org_settings,       \* table org_settings
    seq,                \* sqlite_sequence: last AUTOINCREMENT id per table, and
                        \* (base) the rows sacco.db held when the process started
    cache,              \* st.cache_data entry of load_members_df
    user,               \* st.session_state["user"] of each session
    pc,                 \* position of each session's script run
    members_df,         \* the members_df the session's current run loaded
    out                 \* what the step just taken reported, and to which session

store == <<users, members, savings_deposits, loans, payments, org_settings, seq>>
vars == <<users, members, savings_deposits, loans, payments, org_settings, seq,
          cache, user, pc, members_df, out>>

NoUser == [username |-> "", role |-> "none"]
\* kind: the st.success / st.error / st.warning call made, or "exception" when
\* the handler raised; rows: cursor.rowcount of its statement
\* value: the figure shown by st.metric
Out(s, k, o, a, n) ==
    [sess |-> s, kind |-> k, op |-> o, arg |-> a, rows |-> n, value |-> Rat(0)]
NoOut == Out("", "none", "", "", 0)

\* mutant: the role check is missing
IsAdminOff(s) == TRUE

\* if user["role"] != "admin": st.info("Only admins can ...")
IsAdmin(s) == user[s].role = "admin"
EmptyCache == [valid |-> FALSE, rows |-> {}]

\* -------------------------------------------------------- password hashing
\* hashlib.pbkdf2_hmac is modelled as an injective function of its inputs
DerivedKey(password, salt, iterations) == <<password, salt, iterations>>

\* the salt os.urandom(16) draws when no salt_b64 is passed and the caller
\* names none
FreshSalt == "urandom"

\* base64.b64decode(salt_b64) succeeds: the text is one b64encode produced
B64Valid(salt_b64) == salt_b64 \in Salts \cup {FreshSalt}

\* _pbkdf2 raises: binascii.Error from b64decode (a non-empty salt_b64 that is
\* not base64), ValueError from pbkdf2_hmac (iterations < 1)
Pbkdf2Raises(salt_b64, iterations) ==
    \/ (salt_b64 # "" /\ ~ B64Valid(salt_b64))
    \/ iterations <= 0

\* the triple (iterations, salt_b64, dk_b64) it returns otherwise
_pbkdf2(password, salt_b64, iterations) ==
    LET salt == IF salt_b64 # "" THEN salt_b64 ELSE FreshSalt
    IN  <<iterations, salt, DerivedKey(password, salt, iterations)>>

\* f"pbkdf2_sha256${it}${salt_b64}${dk_b64}", kept as its '$'-separated fields;
\* salt is the value os.urandom drew
hash_password(password, salt) ==
    LET h == _pbkdf2(password, salt, PBKDF2_ITERATIONS)
    IN  <<"pbkdf2_sha256", ToString(h[1]), h[2], h[3]>>

\* the decimal numerals of the model
Numerals == {-1, 0, PBKDF2_ITERATIONS}

\* int(it_s): defined on a numeral, ValueError otherwise
IsNumeral(it_s) == \E n \in Numerals : ToString(n) = it_s
ParseInt(it_s) == CHOOSE n \in Numerals : ToString(n) = it_s

\* "True" or "False", the value returned, or "raise" when an exception leaves
\* the function: the try covers split, assert and int only
verify_password(password, stored) ==
    IF Len(stored) # 4 \/ stored[1] # "pbkdf2_sha256" \/ ~ IsNumeral(stored[2])
    THEN "False"
    ELSE LET it == ParseInt(stored[2])
         IN  IF Pbkdf2Raises(stored[3], it)
             THEN "raise"
             ELSE IF _pbkdf2(password, stored[3], it)[3] = stored[4]
                  THEN "True"
                  ELSE "False"

\* the password_hash column of a users table this program did not write (a
\* restored or edited sacco.db): a well-formed hash, and one of each malformed
\* kind (field count, algorithm tag, iteration count, salt)
StoredInputs ==
    LET good == hash_password("pw", "s1")
    IN  {good,
         <<"abc">>,
         <<good[1], good[2], good[3], good[4], "extra">>,
         <<"md5", good[2], good[3], good[4]>>,
         <<good[1], "x", good[3], good[4]>>,
         <<good[1], "0", good[3], DerivedKey("pw", "s1", 0)>>,
         <<good[1], "-1", good[3], DerivedKey("pw", "s1", -1)>>,
         <<good[1], good[2], "abc", DerivedKey("pw", "abc", PBKDF2_ITERATIONS)>>,
         <<good[1], good[2], "", DerivedKey("pw", "", PBKDF2_ITERATIONS)>>}

\* --------------------------------------------------------------- init_db
\* AUTOINCREMENT
NextId(table) == seq[table] + 1
Bump(table) == [seq EXCEPT ![table] = NextId(table)]

SeedAdmin(salt) ==
    [id |-> 1, username |-> "admin",
     password_hash |-> hash_password("change_me_now!", salt), role |-> "admin"]

\* INSERT INTO org_settings (id) VALUES (1): the column defaults
DefaultSettings ==
    [id |-> 1, org_name |-> "Your SACCO", currency |-> "UGX",
     primary_color |-> "#0f766e", default_savings_rate |-> 10,
     default_compounding |-> "Daily"]

Init ==
    /\ \E salt \in Salts : users = {SeedAdmin(salt)}
    /\ org_settings = {DefaultSettings}
    /\ members = {}
    /\ savings_deposits = {}
    /\ loans = {}
    /\ payments = {}
    /\ seq = [users |-> 1, members |-> 0, savings_deposits |-> 0,
              loans |-> 0, payments |-> 0, base |-> 1]
    /\ cache = EmptyCache
    /\ user = [s \in Sessions |-> NoUser]
    /\ pc = [s \in Sessions |-> "idle"]
    /\ members_df = [s \in Sessions |-> {}]
    /\ out = NoOut

\* init_db(conn) at the top of every script run: the CREATE TABLE IF NOT EXISTS
\* statements change nothing, the admin is seeded when users is empty
init_db(salt) ==
    /\ users' = IF users = {}
                THEN {[SeedAdmin(salt) EXCEPT !.id = NextId("users")]}
                ELSE users
    /\ seq' = IF users = {} THEN Bump("users") ELSE seq
    /\ org_settings' = IF \E r \in org_settings : r.id = 1
                       THEN org_settings
                       ELSE org_settings \cup {DefaultSettings}
    /\ UNCHANGED <<members, savings_deposits, loans, payments>>

\* ------------------------------------------------------------------ login
\* mutant: an unknown username gets a message of its own
LoginResultLeaky(s, username, password) ==
    LET rows == {r \in users : r.username = username}
    IN  IF rows = {}
        THEN [user |-> user[s], out |-> Out(s, "error", "Login", "unknown user", 0)]
        ELSE LET row == CHOOSE r \in rows : TRUE
             IN  IF verify_password(password, row.password_hash) = "True"
                 THEN [user |-> [username |-> row.username, role |-> row.role],
                       out |-> Out(s, "success", "Login", row.username, 0)]
                 ELSE [user |-> user[s], out |-> Out(s, "error", "Login", "", 0)]

\* what submitting the login form does to st.session_state["user"] and what it
\* shows: row = SELECT ... WHERE username = ? .fetchone()
LoginResult(s, username, password) ==
    LET rows == {r \in users : r.username = username}
    IN  IF rows = {}
        THEN [user |-> user[s], out |-> Out(s, "error", "Login", "", 0)]
        ELSE LET row == CHOOSE r \in rows : TRUE
                 v == verify_password(password, row.password_hash)
             IN  IF v = "True"
                 THEN [user |-> [username |-> row.username, role |-> row.role],
                       out |-> Out(s, "success", "Login", row.username, 0)]
                 ELSE IF v = "False"
                 THEN [user |-> user[s], out |-> Out(s, "error", "Login", "", 0)]
                 ELSE [user |-> user[s], out |-> Out(s, "exception", "Login", "", 0)]

login_box(s, username, password) ==
    /\ pc[s] = "idle"
    /\ user[s] = NoUser
    /\ user' = [user EXCEPT ![s] = LoginResult(s, username, password).user]
    /\ out' = LoginResult(s, username, password).out
    /\ \E salt \in Salts : init_db(salt)
    /\ UNCHANGED <<cache, pc, members_df>>

Logout(s) ==
    /\ pc[s] = "idle"
    /\ user[s] # NoUser
    /\ user' = [user EXCEPT ![s] = NoUser]
    /\ out' = NoOut
    /\ UNCHANGED <<store, cache, pc, members_df>>

\* ------------------------------------------------- constraints of the schema
\* mutant: foreign keys are not enforced
ForeignKeysOff(mid) == TRUE

\* FOREIGN KEY(member_id) REFERENCES members(member_id), PRAGMA foreign_keys = ON
ForeignKeyOk(mid) == \E m \in members : m.member_id = mid

\* mutant: member_id without its UNIQUE constraint
NoUniqueMemberId(mid) == TRUE

\* members.member_id TEXT NOT NULL UNIQUE
UniqueMemberId(mid) == ~ \E m \in members : m.member_id = mid

\* mutant: transaction_id without its UNIQUE constraint
NoUniqueTransactionId(txn) == TRUE

\* savings_deposits.transaction_id TEXT NOT NULL UNIQUE
UniqueTransactionId(txn) == ~ \E r \in savings_deposits : r.transaction_id = txn

\* loans.loan_transaction_id TEXT NOT NULL UNIQUE
UniqueLoanTransactionId(txn) == ~ \E r \in loans : r.loan_transaction_id = txn

\* mutant: username without its UNIQUE constraint
NoUniqueUsername(name) == TRUE

\* users.username TEXT NOT NULL UNIQUE
UniqueUsername(name) == ~ \E r \in users : r.username = name

\* mutant: savings_deposits without ON DELETE CASCADE
NoCascadeSavings(mid) == savings_deposits

\* ON DELETE CASCADE of the three child tables
CascadeSavings(mid) == {r \in savings_deposits : r.member_id # mid}
CascadeLoans(mid) == {r \in loans : r.member_id # mid}
CascadePayments(mid) == {r \in payments : r.member_id # mid}

\* rows inserted since the process started (on a new sacco.db: since init_db
\* seeded the admin)
Inserted ==
    seq.users + seq.members + seq.savings_deposits + seq.loans + seq.payments - seq.base

\* -------------------------------------------------------- members cache
\* @st.cache_data load_members_df: a hit returns the cached frame, a miss
\* runs the SELECT and stores its result
load_members_df == IF cache.valid THEN cache.rows ELSE members

refresh_members_cache(s) ==
    /\ pc[s] = "refresh"
    /\ cache' = EmptyCache
    /\ pc' = [pc EXCEPT ![s] = "idle"]
    /\ out' = NoOut
    /\ UNCHANGED <<store, user, members_df>>

\* ------------------------------------------------- start of a script run
Pages == {"Member Management", "Savings & Deposits", "Loan Management", "Admin"}

\* mutant: the script goes on to the page without require_auth
RerunNoAuth(s, page) ==
    /\ pc[s] = "idle"
    /\ page = "Admin" => user[s].role = "admin"
    /\ pc' = [pc EXCEPT ![s] = page]
    /\ IF page = "Admin"
       THEN UNCHANGED <<cache, members_df>>
       ELSE /\ members_df' = [members_df EXCEPT ![s] = load_members_df]
            /\ cache' = [valid |-> TRUE, rows |-> load_members_df]
    /\ out' = NoOut
    /\ \E salt \in Salts : init_db(salt)
    /\ UNCHANGED user

\* init_db, require_auth, render_sidebar (the Admin page is offered to admins
\* only), then the page's load_members_df()
Rerun(s, page) ==
    /\ pc[s] = "idle"
    /\ user[s] # NoUser
    /\ page = "Admin" => user[s].role = "admin"
    /\ pc' = [pc EXCEPT ![s] = page]
    /\ IF page = "Admin"
       THEN UNCHANGED <<cache, members_df>>
       ELSE /\ members_df' = [members_df EXCEPT ![s] = load_members_df]
            /\ cache' = [valid |-> TRUE, rows |-> load_members_df]
    /\ out' = NoOut
    /\ \E salt \in Salts : init_db(salt)
    /\ UNCHANGED user

\* the handler has run: the script finishes (or, after a write to members,
\* goes on to refresh_members_cache)
Finish(s, to) ==
    /\ pc' = [pc EXCEPT ![s] = to]
    /\ members_df' = [members_df EXCEPT ![s] = {}]

\* the run ends with no button pressed
EndRun(s) ==
    /\ pc[s] \in Pages
    /\ Finish(s, "idle")
    /\ out' = NoOut
    /\ UNCHANGED <<store, cache, user>>

\* ------------------------------------------------------ Member Management
\* re.match(r"^[^@]+@[^@]+\.[^@]+$", email)
EmailMatches(email) ==
    \E i \in 1..Len(email), j \in 1..Len(email) :
        /\ email[i] = "@"
        /\ \A k \in 1..Len(email) : k # i => email[k] # "@"
        /\ i > 1
        /\ email[j] = "."
        /\ j > i + 1
        /\ j < Len(email)

RegisterMemberValid(member_id, member_name, email) ==
    /\ ~ (member_id = "" \/ member_name = "")
    /\ ~ (email # << >> /\ ~ EmailMatches(email))

\* constraints checked by INSERT INTO members
MemberInsertOk(row) == UniqueMemberId(row.member_id)

RegisterMember(s, member_id, member_name, email, registration_date) ==
    LET row == [id |-> NextId("members"), member_id |-> member_id,
                member_name |-> member_name, email_address |-> email,
                registration_date |-> registration_date]
    IN
    /\ pc[s] = "Member Management"
    /\ IF ~ RegisterMemberValid(member_id, member_name, email)
       THEN /\ out' = Out(s, "error", "RegisterMember", "invalid", 0)
            /\ Finish(s, "idle")
            /\ UNCHANGED store
       ELSE IF MemberInsertOk(row)
       THEN /\ Inserted < MaxInserts
            /\ members' = members \cup {row}
            /\ seq' = Bump("members")
            /\ out' = Out(s, "success", "RegisterMember", member_id, 1)
            /\ Finish(s, "refresh")
            /\ UNCHANGED <<org_settings, users, savings_deposits, loans, payments>>
       ELSE /\ out' = Out(s, "error", "RegisterMember", "IntegrityError", 0)
            /\ Finish(s, "idle")
            /\ UNCHANGED store
    /\ UNCHANGED <<cache, user>>

\* DELETE FROM members WHERE member_id=? ; commit
DeleteMember(s, pick) ==
    LET mid == pick.member_id
        hit == {m \in members : m.member_id = mid}
    IN
    /\ pc[s] = "Member Management"
    /\ IsAdmin(s)
    /\ pick \in members_df[s]
    /\ members' = members \ hit
    /\ savings_deposits' = IF hit # {} THEN CascadeSavings(mid) ELSE savings_deposits
    /\ loans' = IF hit # {} THEN CascadeLoans(mid) ELSE loans
    /\ payments' = IF hit # {} THEN CascadePayments(mid) ELSE payments
    /\ out' = Out(s, "success", "DeleteMember", mid, Cardinality(hit))
    /\ Finish(s, "refresh")
    /\ UNCHANGED <<org_settings, users, seq, cache, user>>

\* f"{amount:,.2f}" of money(), as a whole number of cents
money(amount) == (2 * 100 * amount[1] + amount[2]) \div (2 * amount[2])

\* ----------------------------------------------------- interest arithmetic
\* n * t of compound_amount, t = years_between(start, end) = days / 365.0
Exponent(start, end, freq) ==
    LET n == IF freq = "Daily" THEN DAYS_PER_YEAR ELSE MONTHS_PER_YEAR
    IN  Norm(n * (end - start), DAYS_PER_YEAR)

\* mutant: no growth is returned as nothing
compound_amount_nothing(P, annual_rate_pct, start, end, freq) ==
    IF annual_rate_pct <= 0
    THEN Rat(0)
    ELSE LET n == IF freq = "Daily" THEN DAYS_PER_YEAR ELSE MONTHS_PER_YEAR
             base == RatAdd(Rat(1), Norm(annual_rate_pct, 100 * n))
         IN  RatMul(P, RatPow(base, Exponent(start, end, freq)[1]))

compound_amount(P, annual_rate_pct, start, end, freq) ==
    IF annual_rate_pct <= 0
    THEN P
    ELSE LET n == IF freq = "Daily" THEN DAYS_PER_YEAR ELSE MONTHS_PER_YEAR
             base == RatAdd(Rat(1), Norm(annual_rate_pct, 100 * n))
         IN  RatMul(P, RatPow(base, Exponent(start, end, freq)[1]))

\* the powers this model can write down exactly: whole-number exponents
Representable(rows, annual_rate_pct, as_of, freq) ==
    annual_rate_pct > 0 => \A r \in rows : RatIsInt(Exponent(r.date, as_of, freq))

\* the loop of the interest calculator: total_interest over df_savings
RECURSIVE TotalInterest(_, _, _, _)
TotalInterest(rows, annual_rate, as_of, compounding) ==
    IF rows = {} THEN Rat(0)
    ELSE LET r == CHOOSE x \in rows : TRUE
         IN  RatAdd(RatSub(compound_amount(r.amount, annual_rate, r.date, as_of,
                                           compounding), r.amount),
                    TotalInterest(rows \ {r}, annual_rate, as_of, compounding))

\* ------------------------------------------------------ Savings & Deposits
\* SELECT ... FROM savings_deposits s JOIN members m ... WHERE s.member_id = ?
SavingsOf(mid) == {r \in savings_deposits : r.member_id = mid /\ ForeignKeyOk(mid)}

\* constraints checked by INSERT INTO savings_deposits
SavingsInsertOk(row) ==
    /\ RatLe(Rat(0), row.amount)
    /\ UniqueTransactionId(row.transaction_id)
    /\ ForeignKeyOk(row.member_id)

\* mutant: the amount is not validated
RecordDepositValidLax(amount, transaction_id) == transaction_id # ""

RecordDepositValid(amount, transaction_id) == ~ (amount <= 0 \/ transaction_id = "")

RecordDeposit(s, pick, amount, deposit_date, deposit_rate, transaction_id) ==
    LET row == [id |-> NextId("savings_deposits"), amount |-> Rat(amount),
                date |-> deposit_date, transaction_id |-> transaction_id,
                member_id |-> pick.member_id, interest_rate |-> deposit_rate]
    IN
    /\ pc[s] = "Savings & Deposits"
    /\ pick \in members_df[s]
    /\ IF ~ RecordDepositValid(amount, transaction_id)
       THEN /\ out' = Out(s, "error", "RecordDeposit", "invalid", 0)
            /\ UNCHANGED store
       ELSE IF SavingsInsertOk(row)
       THEN /\ Inserted < MaxInserts
            /\ savings_deposits' = savings_deposits \cup {row}
            /\ seq' = Bump("savings_deposits")
            /\ out' = Out(s, "success", "RecordDeposit", transaction_id, 1)
            /\ UNCHANGED <<org_settings, users, members, loans, payments>>
       ELSE /\ out' = Out(s, "error", "RecordDeposit", "IntegrityError", 0)
            /\ UNCHANGED store
    /\ Finish(s, "idle")
    /\ UNCHANGED <<cache, user>>

\* constraints checked by INSERT INTO payments
PaymentInsertOk(row) ==
    /\ row.payment_type \in {"deposit", "loan_repayment"}
    /\ RatLt(Rat(0), row.amount)
    /\ row.status \in {"PENDING", "SUCCESS", "FAILED"}
    /\ ForeignKeyOk(row.member_id)

\* mutant: the placeholder is recorded as already settled
PaystoreSettled(s, page, payment_type, pick, pay_amount, token) ==
    LET row == [id |-> NextId("payments"), payment_type |-> payment_type,
                member_id |-> pick.member_id, amount |-> Rat(pay_amount),
                external_ref |-> "PS-" \o token, status |-> "SUCCESS"]
    IN
    /\ pc[s] = page
    /\ pick \in members_df[s]
    /\ pay_amount > 0
    /\ PaymentInsertOk(row)
    /\ Inserted < MaxInserts
    /\ payments' = payments \cup {row}
    /\ seq' = Bump("payments")
    /\ out' = Out(s, "success", "Paystore", row.external_ref, 1)
    /\ Finish(s, "idle")
    /\ UNCHANGED <<org_settings, users, members, savings_deposits, loans, cache, user>>

\* both "Pay with Paystore" forms: the INSERT is not inside a try
Paystore(s, page, payment_type, pick, pay_amount, token) ==
    LET row == [id |-> NextId("payments"), payment_type |-> payment_type,
                member_id |-> pick.member_id, amount |-> Rat(pay_amount),
                external_ref |-> "PS-" \o token, status |-> "PENDING"]
    IN
    /\ pc[s] = page
    /\ pick \in members_df[s]
    /\ IF pay_amount <= 0
       THEN /\ out' = Out(s, "error", "Paystore", "invalid", 0)
            /\ UNCHANGED store
       ELSE IF PaymentInsertOk(row)
       THEN /\ Inserted < MaxInserts
            /\ payments' = payments \cup {row}
            /\ seq' = Bump("payments")
            /\ out' = Out(s, "success", "Paystore", row.external_ref, 1)
            /\ UNCHANGED <<org_settings, users, members, savings_deposits, loans>>
       ELSE /\ out' = Out(s, "exception", "Paystore", "IntegrityError", 0)
            /\ UNCHANGED store
    /\ Finish(s, "idle")
    /\ UNCHANGED <<cache, user>>

PaystoreDeposit(s, pick, pay_amount, token) ==
    Paystore(s, "Savings & Deposits", "deposit", pick, pay_amount, token)

\* "Interest Calculator": the accrued interest of the member's deposits is
\* computed and displayed
InterestCalculator(s, pick, annual_rate, compounding, as_of) ==
    LET df_savings == SavingsOf(pick.member_id)
        total_interest == TotalInterest(df_savings, annual_rate, as_of, compounding)
    IN
    /\ pc[s] = "Savings & Deposits"
    /\ pick \in members_df[s]
    /\ df_savings # {}
    /\ Representable(df_savings, annual_rate, as_of, compounding)
    /\ out' = [Out(s, "markdown", "InterestCalculator", pick.member_id, 0)
                  EXCEPT !.value = total_interest]
    /\ Finish(s, "idle")
    /\ UNCHANGED <<store, cache, user>>

\* f"INT-{as_of.strftime('%Y%m%d')}-{secrets.token_hex(3)}"
InterestRef(as_of, token) == "INT-" \o ToString(as_of) \o "-" \o token

\* "Post Interest as Deposit": the INSERT is not inside a try
PostInterest(s, pick, annual_rate, compounding, as_of, token) ==
    LET mid == pick.member_id
        df_savings == SavingsOf(mid)
        total_interest == TotalInterest(df_savings, annual_rate, as_of, compounding)
        row == [id |-> NextId("savings_deposits"), amount |-> total_interest,
                date |-> as_of, transaction_id |-> InterestRef(as_of, token),
                member_id |-> mid, interest_rate |-> annual_rate]
    IN
    /\ pc[s] = "Savings & Deposits"
    /\ pick \in members_df[s]
    /\ df_savings # {}
    /\ IsAdmin(s)
    /\ Representable(df_savings, annual_rate, as_of, compounding)
    /\ IF SavingsInsertOk(row)
       THEN /\ Inserted < MaxInserts
            /\ savings_deposits' = savings_deposits \cup {row}
            /\ seq' = Bump("savings_deposits")
            /\ out' = Out(s, "success", "PostInterest", row.transaction_id, 1)
            /\ UNCHANGED <<org_settings, users, members, loans, payments>>
       ELSE /\ out' = Out(s, "exception", "PostInterest", "IntegrityError", 0)
            /\ UNCHANGED store
    /\ Finish(s, "idle")
    /\ UNCHANGED <<cache, user>>

\* mutant: the affected-row count is not looked at
DeleteSavingsUnchecked(s, delete_txn) ==
    /\ pc[s] = "Savings & Deposits"
    /\ members_df[s] # {}
    /\ IsAdmin(s)
    /\ delete_txn # ""
    /\ savings_deposits' = {r \in savings_deposits : r.transaction_id # delete_txn}
    /\ out' = Out(s, "success", "DeleteSavings", delete_txn, 0)
    /\ Finish(s, "idle")
    /\ UNCHANGED <<org_settings, users, members, loans, payments, seq, cache, user>>

\* DELETE FROM savings_deposits WHERE transaction_id = ? ; commit
DeleteSavings(s, delete_txn) ==
    LET hit == {r \in savings_deposits : r.transaction_id = delete_txn}
    IN
    /\ pc[s] = "Savings & Deposits"
    /\ members_df[s] # {}
    /\ IsAdmin(s)
    /\ delete_txn # ""
    /\ savings_deposits' = savings_deposits \ hit
    /\ out' = Out(s, IF Cardinality(hit) # 0 THEN "success" ELSE "warning",
                  "DeleteSavings", delete_txn, Cardinality(hit))
    /\ Finish(s, "idle")
    /\ UNCHANGED <<org_settings, users, members, loans, payments, seq, cache, user>>

\* --------------------------------------------------------- Loan Management
\* total = float(loan_amount) * (1.0 + float(loan_rate) / 100.0)
FlatTotal(loan_amount, loan_rate) ==
    RatMul(Rat(loan_amount), RatAdd(Rat(1), Norm(loan_rate, 100)))

\* mutant: the total is spread over a year whatever the period
FlatMonthlyPerYear(total, loan_period) == RatDiv(total, Rat(MONTHS_PER_YEAR))

\* monthly = total / int(loan_period)
FlatMonthly(total, loan_period) == RatDiv(total, Rat(loan_period))

\* constraints checked by INSERT INTO loans
LoanInsertOk(row) ==
    /\ RatLe(Rat(0), row.loan_amount)
    /\ row.loan_period >= 1
    /\ UniqueLoanTransactionId(row.loan_transaction_id)
    /\ ForeignKeyOk(row.member_id)

RecordLoanValid(loan_amount, loan_txn_id) == ~ (loan_amount <= 0 \/ loan_txn_id = "")

RecordLoan(s, pick, loan_amount, loan_period, loan_rate, loan_date, loan_txn_id) ==
    LET total == FlatTotal(loan_amount, loan_rate)
        monthly == FlatMonthly(total, loan_period)
        row == [id |-> NextId("loans"), loan_amount |-> Rat(loan_amount),
                loan_period |-> loan_period, total_repayment |-> total,
                monthly_installment |-> monthly, loan_date |-> loan_date,
                loan_transaction_id |-> loan_txn_id, member_id |-> pick.member_id,
                interest_rate |-> loan_rate]
    IN
    /\ pc[s] = "Loan Management"
    /\ pick \in members_df[s]
    /\ IF ~ RecordLoanValid(loan_amount, loan_txn_id)
       THEN /\ out' = Out(s, "error", "RecordLoan", "invalid", 0)
            /\ UNCHANGED store
       ELSE IF LoanInsertOk(row)
       THEN /\ Inserted < MaxInserts
            /\ loans' = loans \cup {row}
            /\ seq' = Bump("loans")
            /\ out' = Out(s, "success", "RecordLoan", loan_txn_id, 1)
            /\ UNCHANGED <<org_settings, users, members, savings_deposits, payments>>
       ELSE /\ out' = Out(s, "error", "RecordLoan", "IntegrityError", 0)
            /\ UNCHANGED store
    /\ Finish(s, "idle")
    /\ UNCHANGED <<cache, user>>

PaystoreLoan(s, pick, repay_amount, token) ==
    Paystore(s, "Loan Management", "loan_repayment", pick, repay_amount, token)

\* mutant: a zero-rate loan is spread over a year whatever its term
PaymentPerYear(principal, r, months) ==
    IF r = Rat(0)
    THEN RatDiv(principal, Rat(MONTHS_PER_YEAR))
    ELSE LET g == RatPow(RatAdd(Rat(1), r), months)
         IN  RatDiv(RatMul(principal, RatMul(r, g)), RatSub(g, Rat(1)))

\* the equal payment of amortization_schedule, r the monthly rate
Payment(principal, r, months) ==
    IF r = Rat(0)
    THEN RatDiv(principal, Rat(months))
    ELSE LET g == RatPow(RatAdd(Rat(1), r), months)
         IN  RatDiv(RatMul(principal, RatMul(r, g)), RatSub(g, Rat(1)))

RatMax(x, y) == IF RatLe(x, y) THEN y ELSE x

\* the for loop of amortization_schedule, from installment m on
RECURSIVE ScheduleRows(_, _, _, _, _, _)
ScheduleRows(m, months, balance, current_date, payment, r) ==
    IF m > months THEN << >>
    ELSE LET interest == RatMul(balance, r)
             principal_part == RatSub(payment, interest)
             new_balance == RatMax(Rat(0), RatSub(balance, principal_part))
         IN  <<[installment |-> m, due_date |-> current_date, payment |-> payment,
                interest |-> interest, principal |-> principal_part,
                balance |-> new_balance]>>
             \o ScheduleRows(m + 1, months, new_balance, current_date + DUE_STEP_DAYS,
                             payment, r)

\* mutant: the first installment falls due one step after the start date
amortization_schedule_late(principal, annual_rate_pct, months, start_date) ==
    LET r == Norm(annual_rate_pct, 100 * MONTHS_PER_YEAR)
    IN  ScheduleRows(1, months, principal, start_date + DUE_STEP_DAYS,
                     Payment(principal, r, months), r)

amortization_schedule(principal, annual_rate_pct, months, start_date) ==
    LET r == Norm(annual_rate_pct, 100 * MONTHS_PER_YEAR)
    IN  ScheduleRows(1, months, principal, start_date, Payment(principal, r, months), r)

\* mutant: the first due installment is taken, iloc[0]
OutstandingBalanceFirstDue(sched, as_of_date, loan_amount) ==
    LET due == {k \in 1..Len(sched) : sched[k].due_date <= as_of_date}
    IN  IF due # {}
        THEN sched[CHOOSE k \in due : \A j \in due : k <= j].balance
        ELSE loan_amount

\* due_mask.any() / schedule[due_mask].iloc[-1]["Balance"] / the loan amount
OutstandingBalance(schedule, as_of_date, loan_amount) ==
    LET due == {k \in 1..Len(schedule) : schedule[k].due_date <= as_of_date}
    IN  IF due # {}
        THEN schedule[CHOOSE k \in due : \A j \in due : j <= k].balance
        ELSE loan_amount

\* ------------------------------------------------- binary64 arithmetic
\* A Python float is an IEEE-754 binary64: every result is the exact result
\* rounded to the nearest value with a 53-bit significand, ties to even. Here
\* a float is [sign, man, exp], man the bits of a natural number, most
\* significant first and without leading or trailing zeros, and its value is
\* sign * man * 2^exp.
F64_SIGNIFICAND_BITS == 53

RECURSIVE Bits(_)
Bits(n) == IF n = 0 THEN << >> ELSE Bits(n \div 2) \o <<n % 2>>

Zeros(k) == [i \in 1..k |-> 0]

\* b without its leading zeros
Strip(b) ==
    IF \A i \in 1..Len(b) : b[i] = 0 THEN << >>
    ELSE SubSeq(b, CHOOSE i \in 1..Len(b) : b[i] = 1 /\ \A j \in 1..(i - 1) : b[j] = 0,
                Len(b))

\* a < b, for two naturals written without leading zeros
BLess(a, b) ==
    \/ Len(a) < Len(b)
    \/ /\ Len(a) = Len(b)
       /\ \E i \in 1..Len(a) : a[i] < b[i] /\ \A j \in 1..(i - 1) : a[j] = b[j]

\* a - b, a >= b written in the same number of bits: bit i borrows when the
\* bits below it are less in a than in b
BSub(a, b) ==
    LET n == Len(a)
        borrow(i) == \E j \in (i + 1)..n :
                         a[j] < b[j] /\ \A l \in (i + 1)..(j - 1) : a[l] = b[l]
    IN  [i \in 1..n |-> (a[i] - b[i] - (IF borrow(i) THEN 1 ELSE 0) + 2) % 2]

\* a + 1: the trailing ones become zeros and the zero before them a one
BInc(a) ==
    IF \A i \in 1..Len(a) : a[i] = 1 THEN <<1>> \o Zeros(Len(a))
    ELSE LET z == CHOOSE i \in 1..Len(a) :
                      a[i] = 0 /\ \A j \in (i + 1)..Len(a) : a[j] = 1
         IN  [i \in 1..Len(a) |-> IF i < z THEN a[i] ELSE IF i = z THEN 1 ELSE 0]

F64Zero == [sign |-> 1, man |-> << >>, exp |-> 0]

\* trailing zeros of the significand go into the exponent
Canon(x) ==
    IF \A i \in 1..Len(x.man) : x.man[i] = 0 THEN F64Zero
    ELSE LET last == CHOOSE i \in 1..Len(x.man) :
                         x.man[i] = 1 /\ \A j \in (i + 1)..Len(x.man) : x.man[j] = 0
         IN  [sign |-> x.sign, man |-> SubSeq(x.man, 1, last),
              exp |-> x.exp + Len(x.man) - last]

\* round-to-nearest, ties-to-even, of sign * b * 2^e to 53 significant bits
F64Round(sign, b, e) ==
    LET p == F64_SIGNIFICAND_BITS
        m == Strip(b)
    IN  IF Len(m) <= p
        THEN Canon([sign |-> sign, man |-> m, exp |-> e])
        ELSE LET kept == SubSeq(m, 1, p)
                 sticky == \E j \in (p + 2)..Len(m) : m[j] = 1
                 up == m[p + 1] = 1 /\ (sticky \/ kept[p] = 1)
             IN  Canon([sign |-> sign, man |-> IF up THEN BInc(kept) ELSE kept,
                        exp |-> e + Len(m) - p])

\* float(n) of a natural number n < 2^31
F64FromInt(n) == Canon([sign |-> 1, man |-> Bits(n), exp |-> 0])

\* 2^i mod d, for d < 2^15
RECURSIVE Pow2Mod(_, _)
Pow2Mod(i, d) ==
    IF i = 0 THEN 1 % d
    ELSE LET h == Pow2Mod(i \div 2, d)
         IN  (h * h * (IF i % 2 = 1 THEN 2 ELSE 1)) % d

\* the first k bits of the fraction rem / d (rem < d), then a sticky bit for
\* what is left of it
DivBits(rem, d, k) ==
    LET left(i) == (rem * Pow2Mod(i, d)) % d
    IN  [i \in 1..k |-> (2 * left(i - 1)) \div d] \o <<IF left(k) # 0 THEN 1 ELSE 0>>

\* n / d of two floats holding the natural numbers n and d > 0
F64DivInt(n, d) ==
    LET k == 2 * F64_SIGNIFICAND_BITS
    IN  F64Round(1, Bits(n \div d) \o DivBits(n % d, d, k), -(k + 1))

\* x - y of two floats x, y >= 0
F64Sub(x, y) ==
    LET e == IF x.exp < y.exp THEN x.exp ELSE y.exp
        X == Strip(x.man \o Zeros(x.exp - e))
        Y == Strip(y.man \o Zeros(y.exp - e))
        n == IF Len(X) < Len(Y) THEN Len(Y) ELSE Len(X)
        pad(b) == Zeros(n - Len(b)) \o b
    IN  IF BLess(X, Y)
        THEN F64Round(-1, BSub(pad(Y), pad(X)), e)
        ELSE F64Round(1, BSub(pad(X), pad(Y)), e)

\* max(0.0, x)
F64Max0(x) == IF x.sign < 0 THEN F64Zero ELSE x

\* the for loop of amortization_schedule when r == 0, in binary64: interest is
\* balance * 0.0 = 0.0 and principal_part is payment - 0.0 = payment
RECURSIVE ZeroRateRowsF64(_, _, _, _)
ZeroRateRowsF64(m, months, balance, payment) ==
    IF m > months THEN << >>
    ELSE LET interest == F64Zero
             principal_part == F64Sub(payment, interest)
             new_balance == F64Max0(F64Sub(balance, principal_part))
         IN  <<[installment |-> m, payment |-> payment, interest |-> interest,
                principal |-> principal_part, balance |-> new_balance]>>
             \o ZeroRateRowsF64(m + 1, months, new_balance, payment)

\* amortization_schedule(principal, 0.0, months, start_date) in binary64, for
\* a principal that is a whole number: payment = principal / months
ZeroRateScheduleF64(principal, months) ==
    ZeroRateRowsF64(1, months, F64FromInt(principal[1]),
                    F64DivInt(principal[1], months))

\* the schedules this model can write down exactly: a zero rate, a
\* whole-number monthly rate over a short term, or a term of two months
ScheduleRepresentable(row) ==
    \/ row.interest_rate = 0
    \/ (row.interest_rate % (100 * MONTHS_PER_YEAR) = 0 /\ row.loan_period <= 8)
    \/ row.loan_period <= 2

\* SELECT ... FROM loans l JOIN members m ... WHERE l.member_id = ?
LoansOf(mid) == {r \in loans : r.member_id = mid /\ ForeignKeyOk(mid)}

\* mutant: the amortized total is written back to the loan
LoanHistoryWriteBack(s, pick, selected_row, as_of_date) ==
    LET r == Norm(selected_row.interest_rate, 100 * MONTHS_PER_YEAR)
        amortized == RatMul(Payment(selected_row.loan_amount, r, selected_row.loan_period),
                            Rat(selected_row.loan_period))
    IN
    /\ pc[s] = "Loan Management"
    /\ pick \in members_df[s]
    /\ selected_row \in LoansOf(pick.member_id)
    /\ ScheduleRepresentable(selected_row)
    /\ loans' = (loans \ {selected_row})
                    \cup {[selected_row EXCEPT !.total_repayment = amortized]}
    /\ out' = Out(s, "metric", "LoanHistory", selected_row.loan_transaction_id, 0)
    /\ Finish(s, "idle")
    /\ UNCHANGED <<org_settings, users, members, savings_deposits, payments, seq, cache, user>>

\* "Loan History + Amortization": the schedule and the outstanding balance
\* of the chosen loan are computed and displayed
LoanHistory(s, pick, selected_row, as_of_date) ==
    LET schedule == amortization_schedule(selected_row.loan_amount,
                                          selected_row.interest_rate,
                                          selected_row.loan_period,
                                          selected_row.loan_date)
        outstanding_balance ==
            OutstandingBalance(schedule, as_of_date, selected_row.loan_amount)
    IN
    /\ pc[s] = "Loan Management"
    /\ pick \in members_df[s]
    /\ selected_row \in LoansOf(pick.member_id)
    /\ ScheduleRepresentable(selected_row)
    /\ out' = [Out(s, "metric", "LoanHistory", selected_row.loan_transaction_id, 0)
                  EXCEPT !.value = outstanding_balance]
    /\ Finish(s, "idle")
    /\ UNCHANGED <<store, cache, user>>

\* the loan whose schedule the step just taken displayed, and that schedule
selected_row == CHOOSE l \in loans : l.loan_transaction_id = out.arg
schedule ==
    amortization_schedule(selected_row.loan_amount, selected_row.interest_rate,
                          selected_row.loan_period, selected_row.loan_date)

\* DELETE FROM loans WHERE loan_transaction_id = ? ; commit
DeleteLoan(s, del_txn) ==
    LET hit == {r \in loans : r.loan_transaction_id = del_txn}
    IN
    /\ pc[s] = "Loan Management"
    /\ members_df[s] # {}
    /\ IsAdmin(s)
    /\ del_txn # ""
    /\ loans' = loans \ hit
    /\ out' = Out(s, IF Cardinality(hit) # 0 THEN "success" ELSE "warning",
                  "DeleteLoan", del_txn, Cardinality(hit))
    /\ Finish(s, "idle")
    /\ UNCHANGED <<org_settings, users, members, savings_deposits, payments, seq, cache, user>>

\* ------------------------------------------------------------------- Admin
\* if not user or user.get("role") not in roles: st.stop()
require_role(s, roles) == user[s] # NoUser /\ user[s].role \in roles

\* constraints checked by INSERT INTO users
UserInsertOk(row) == UniqueUsername(row.username) /\ row.role \in {"admin", "teller"}

\* mutant: INSERT OR REPLACE, an existing username is overwritten
CreateUserReplace(s, new_username, new_password, new_password_confirm, new_role, salt) ==
    LET row == [id |-> NextId("users"), username |-> new_username,
                password_hash |-> hash_password(new_password, salt),
                role |-> new_role]
    IN
    /\ pc[s] = "Admin"
    /\ require_role(s, {"admin"})
    /\ ~ (new_username = "" \/ new_password = "" \/ new_password # new_password_confirm)
    /\ Inserted < MaxInserts
    /\ users' = {r \in users : r.username # new_username} \cup {row}
    /\ seq' = Bump("users")
    /\ out' = Out(s, "success", "CreateUser", new_username, 1)
    /\ Finish(s, "idle")
    /\ UNCHANGED <<org_settings, members, savings_deposits, loans, payments, cache, user>>

CreateUser(s, new_username, new_password, new_password_confirm, new_role, salt) ==
    LET row == [id |-> NextId("users"), username |-> new_username,
                password_hash |-> hash_password(new_password, salt),
                role |-> new_role]
    IN
    /\ pc[s] = "Admin"
    /\ require_role(s, {"admin"})
    /\ IF new_username = "" \/ new_password = "" \/ new_password # new_password_confirm
       THEN /\ out' = Out(s, "error", "CreateUser", "invalid", 0)
            /\ UNCHANGED store
       ELSE IF UserInsertOk(row)
       THEN /\ Inserted < MaxInserts
            /\ users' = users \cup {row}
            /\ seq' = Bump("users")
            /\ out' = Out(s, "success", "CreateUser", new_username, 1)
            /\ UNCHANGED <<org_settings, members, savings_deposits, loans, payments>>
       ELSE /\ out' = Out(s, "error", "CreateUser", "IntegrityError", 0)
            /\ UNCHANGED store
    /\ Finish(s, "idle")
    /\ UNCHANGED <<cache, user>>

\* UPDATE users SET password_hash=? WHERE username=? ; commit
UpdatePassword(s, change_user, new_pw1, new_pw2, salt) ==
    LET hit == {r \in users : r.username = change_user}
    IN
    /\ pc[s] = "Admin"
    /\ require_role(s, {"admin"})
    /\ IF change_user = "" \/ new_pw1 = "" \/ new_pw1 # new_pw2
       THEN /\ out' = Out(s, "error", "UpdatePassword", "invalid", 0)
            /\ UNCHANGED users
       ELSE /\ users' = (users \ hit) \cup
                   {[r EXCEPT !.password_hash = hash_password(new_pw1, salt)] : r \in hit}
            /\ out' = Out(s, IF Cardinality(hit) # 0 THEN "success" ELSE "warning",
                          "UpdatePassword", change_user, Cardinality(hit))
    /\ Finish(s, "idle")
    /\ UNCHANGED <<org_settings, members, savings_deposits, loans, payments, seq, cache, user>>

\* mutant: blank names reset the settings by deleting the row
SaveSettingsReset(s, org_name, currency_code, primary_color, default_rate, default_compounding) ==
    /\ pc[s] = "Admin"
    /\ require_role(s, {"admin"})
    /\ org_settings' = IF org_name = ""
                       THEN {}
                       ELSE {[r EXCEPT !.org_name = org_name] : r \in org_settings}
    /\ out' = Out(s, "success", "SaveSettings", "", 1)
    /\ Finish(s, "idle")
    /\ UNCHANGED <<users, members, savings_deposits, loans, payments, seq, cache, user>>

\* UPDATE org_settings SET ... WHERE id=1 ; commit ; refresh_settings_cache()
SaveSettings(s, org_name, currency_code, primary_color, default_rate, default_compounding) ==
    LET hit == {r \in org_settings : r.id = 1}
        new(r) == [r EXCEPT !.org_name = IF org_name # "" THEN org_name ELSE "Your SACCO",
                            !.currency = IF currency_code # "" THEN currency_code ELSE "UGX",
                            !.primary_color = primary_color,
                            !.default_savings_rate = default_rate,
                            !.default_compounding = default_compounding]
    IN
    /\ pc[s] = "Admin"
    /\ require_role(s, {"admin"})
    /\ org_settings' = (org_settings \ hit) \cup {new(r) : r \in hit}
    /\ out' = Out(s, "success", "SaveSettings", "", Cardinality(hit))
    /\ Finish(s, "idle")
    /\ UNCHANGED <<users, members, savings_deposits, loans, payments, seq, cache, user>>

\* ------------------------------------------------------------ next-state
Next ==
    \/ \E s \in Sessions, u \in UsernameInputs, p \in PasswordInputs : login_box(s, u, p)
    \/ \E s \in Sessions : Logout(s)
    \/ \E s \in Sessions, page \in Pages : Rerun(s, page)
    \/ \E s \in Sessions : EndRun(s)
    \/ \E s \in Sessions : refresh_members_cache(s)
    \/ \E s \in Sessions, i \in RegisterInputs :
          RegisterMember(s, i.member_id, i.member_name, i.email, i.registration_date)
    \/ \E s \in Sessions : \E pick \in members_df[s] : DeleteMember(s, pick)
    \/ \E s \in Sessions, i \in DepositInputs : \E pick \in members_df[s] :
          RecordDeposit(s, pick, i.amount, i.deposit_date, i.deposit_rate, i.transaction_id)
    \/ \E s \in Sessions, a \in PayAmountInputs, k \in Tokens : \E pick \in members_df[s] :
          PaystoreDeposit(s, pick, a, k)
    \/ \E s \in Sessions, r \in AnnualRateInputs, f \in Frequencies, d \in Dates, k \in Tokens :
          \E pick \in members_df[s] : PostInterest(s, pick, r, f, d, k)
    \/ \E s \in Sessions, r \in AnnualRateInputs, f \in Frequencies, d \in Dates :
          \E pick \in members_df[s] : InterestCalculator(s, pick, r, f, d)
    \/ \E s \in Sessions, t \in DeleteTxnInputs : DeleteSavings(s, t)
    \/ \E s \in Sessions, i \in LoanInputs : \E pick \in members_df[s] :
          RecordLoan(s, pick, i.loan_amount, i.loan_period, i.loan_rate, i.loan_date,
                     i.loan_txn_id)
    \/ \E s \in Sessions, a \in PayAmountInputs, k \in Tokens : \E pick \in members_df[s] :
          PaystoreLoan(s, pick, a, k)
    \/ \E s \in Sessions, d \in Dates : \E pick \in members_df[s] :
          \E row \in loans : LoanHistory(s, pick, row, d)
    \/ \E s \in Sessions, t \in DeleteTxnInputs : DeleteLoan(s, t)
    \/ \E s \in Sessions, i \in CreateUserInputs, salt \in Salts :
          CreateUser(s, i.new_username, i.new_password, i.new_password_confirm,
                     i.new_role, salt)

Spec == Init /\ [][Next]_vars

\* the Admin page: organization settings and user management
NextUsers ==
    \/ \E s \in Sessions, u \in UsernameInputs, p \in PasswordInputs : login_box(s, u, p)
    \/ \E s \in Sessions : Logout(s)
    \/ \E s \in Sessions : Rerun(s, "Admin")
    \/ \E s \in Sessions : EndRun(s)
    \/ \E s \in Sessions, i \in CreateUserInputs, salt \in Salts :
          CreateUser(s, i.new_username, i.new_password, i.new_password_confirm,
                     i.new_role, salt)
    \/ \E s \in Sessions, i \in UpdatePasswordInputs, salt \in Salts :
          UpdatePassword(s, i.change_user, i.new_pw1, i.new_pw2, salt)
    \/ \E s \in Sessions, i \in SettingsInputs :
          SaveSettings(s, i.org_name, i.currency_code, i.primary_color, i.default_rate,
                       i.default_compounding)

SpecUsers == Init /\ [][NextUsers]_vars

\* the application started on a sacco.db that already has a users row, its
\* password_hash any stored text
InitVerify ==
    /\ \E stored \in StoredInputs :
          users = {[id |-> 1, username |-> "admin", password_hash |-> stored,
                    role |-> "admin"]}
    /\ org_settings = {DefaultSettings}
    /\ members = {}
    /\ savings_deposits = {}
    /\ loans = {}
    /\ payments = {}
    /\ seq = [users |-> 1, members |-> 0, savings_deposits |-> 0,
              loans |-> 0, payments |-> 0, base |-> 1]
    /\ cache = EmptyCache
    /\ user = [s \in Sessions |-> NoUser]
    /\ pc = [s \in Sessions |-> "idle"]
    /\ members_df = [s \in Sessions |-> {}]
    /\ out = NoOut

SpecVerify == InitVerify /\ [][NextUsers]_vars

\* the application started on a sacco.db in which member m1 was registered
\* by an earlier process
InitSavings ==
    /\ \E salt \in Salts : users = {SeedAdmin(salt)}
    /\ org_settings = {DefaultSettings}
    /\ members = {[id |-> 1, member_id |-> "m1", member_name |-> "Ann",
                   email_address |-> << >>, registration_date |-> Today]}
    /\ savings_deposits = {}
    /\ loans = {}
    /\ payments = {}
    /\ seq = [users |-> 1, members |-> 1, savings_deposits |-> 0,
              loans |-> 0, payments |-> 0, base |-> 2]
    /\ cache = EmptyCache
    /\ user = [s \in Sessions |-> NoUser]
    /\ pc = [s \in Sessions |-> "idle"]
    /\ members_df = [s \in Sessions |-> {}]
    /\ out = NoOut

\* the Savings & Deposits page
NextSavings ==
    \/ \E s \in Sessions, u \in UsernameInputs, p \in PasswordInputs : login_box(s, u, p)
    \/ \E s \in Sessions : Logout(s)
    \/ \E s \in Sessions : Rerun(s, "Savings & Deposits")
    \/ \E s \in Sessions : EndRun(s)
    \/ \E s \in Sessions, i \in DepositInputs : \E pick \in members_df[s] :
          RecordDeposit(s, pick, i.amount, i.deposit_date, i.deposit_rate, i.transaction_id)
    \/ \E s \in Sessions, r \in AnnualRateInputs, f \in Frequencies, d \in Dates, k \in Tokens :
          \E pick \in members_df[s] : PostInterest(s, pick, r, f, d, k)
    \/ \E s \in Sessions, r \in AnnualRateInputs, f \in Frequencies, d \in Dates :
          \E pick \in members_df[s] : InterestCalculator(s, pick, r, f, d)
    \/ \E s \in Sessions, t \in DeleteTxnInputs : DeleteSavings(s, t)

SpecSavings == InitSavings /\ [][NextSavings]_vars

\* ------------------------------------------------------------- properties

C2_ReferentialIntegrity ==
    \A r \in savings_deposits \cup loans \cup payments :
        \E m \in members : m.member_id = r.member_id

\* a deposit for a member another session has just deleted was rejected
C2_Witness ==
    /\ out.op = "RecordDeposit"
    /\ out.arg = "IntegrityError"
    /\ savings_deposits = {}
    /\ members = {}
    /\ \E s \in Sessions : s # out.sess /\ user[s] # NoUser

C4_DuplicateRejected ==
    [][/\ out'.op = "RecordDeposit" =>
             \A i \in DepositInputs : \A pick \in members_df[out'.sess] :
                ( /\ \E r \in savings_deposits : r.transaction_id = i.transaction_id
                  /\ RecordDeposit(out'.sess, pick, i.amount, i.deposit_date,
                                   i.deposit_rate, i.transaction_id) )
                => ( /\ out'.kind = "error"
                     /\ i.amount > 0 => out'.arg = "IntegrityError"
                     /\ UNCHANGED store )
       /\ out'.op = "RegisterMember" =>
             \A i \in RegisterInputs :
                ( /\ \E r \in members : r.member_id = i.member_id
                  /\ RegisterMember(out'.sess, i.member_id, i.member_name, i.email,
                                    i.registration_date) )
                => ( /\ out'.kind = "error"
                     /\ (i.member_name # "" /\ i.email # BadEmail)
                            => out'.arg = "IntegrityError"
                     /\ UNCHANGED store )
       /\ out'.op = "RecordLoan" =>
             \A i \in LoanInputs : \A pick \in members_df[out'.sess] :
                ( /\ \E r \in loans : r.loan_transaction_id = i.loan_txn_id
                  /\ RecordLoan(out'.sess, pick, i.loan_amount, i.loan_period,
                                i.loan_rate, i.loan_date, i.loan_txn_id) )
                => ( /\ out'.kind = "error"
                     /\ i.loan_amount > 0 => out'.arg = "IntegrityError"
                     /\ UNCHANGED store )]_vars

\* a deposit was refused as a duplicate while the only member ever registered
\* is still there, and the first deposit is still in the table
C4_Witness ==
    /\ out.op = "RecordDeposit"
    /\ out.arg = "IntegrityError"
    /\ seq.members = 1
    /\ members # {}
    /\ savings_deposits # {}

\* C5: Register Member with an empty member ID or name or a non-empty email
\* that does not match the pattern, Record Deposit with amount <= 0 or an
\* empty transaction ID, and Record Loan with amount <= 0 or an empty loan
\* transaction ID are rejected as invalid, and the store stays as it was.
C5_ValidationBeforeWrite ==
    [][/\ out'.op = "RegisterMember" =>
             \A i \in RegisterInputs :
                ( /\ \/ i.member_id = ""
                     \/ i.member_name = ""
                     \/ (i.email # << >> /\ ~ EmailMatches(i.email))
                  /\ RegisterMember(out'.sess, i.member_id, i.member_name, i.email,
                                    i.registration_date) )
                => (out' = Out(out'.sess, "error", "RegisterMember", "invalid", 0)
                        /\ UNCHANGED store)
       /\ out'.op = "RecordDeposit" =>
             \A i \in DepositInputs : \A pick \in members_df[out'.sess] :
                ( /\ (i.amount <= 0 \/ i.transaction_id = "")
                  /\ RecordDeposit(out'.sess, pick, i.amount, i.deposit_date,
                                   i.deposit_rate, i.transaction_id) )
                => (out' = Out(out'.sess, "error", "RecordDeposit", "invalid", 0)
                        /\ UNCHANGED store)
       /\ out'.op = "RecordLoan" =>
             \A i \in LoanInputs : \A pick \in members_df[out'.sess] :
                ( /\ (i.loan_amount <= 0 \/ i.loan_txn_id = "")
                  /\ RecordLoan(out'.sess, pick, i.loan_amount, i.loan_period,
                                i.loan_rate, i.loan_date, i.loan_txn_id) )
                => (out' = Out(out'.sess, "error", "RecordLoan", "invalid", 0)
                        /\ UNCHANGED store)]_vars

\* an invalid deposit form was submitted for an existing member
C5_Witness ==
    /\ out.op = "RecordDeposit"
    /\ out.arg = "invalid"
    /\ out.kind = "error"
    /\ members # {}

\* C6: every loans row has total_repayment = p * (1 + r/100) and
\* monthly_installment * n = total_repayment; p = 100,000, r = 12, n = 12 give
\* total 112,000 and monthly 9,333.33.
C6_FlatRateTotals ==
    \A l \in loans :
        /\ l.total_repayment =
               Norm(l.loan_amount[1] * (100 + l.interest_rate), 100 * l.loan_amount[2])
        /\ RatMul(l.monthly_installment, Rat(l.loan_period)) = l.total_repayment
        /\ (l.loan_amount = Rat(100000) /\ l.interest_rate = 12 /\ l.loan_period = 12)
               => (l.total_repayment = Rat(112000) /\ money(l.monthly_installment) = 933333)

\* the loan of the example has been recorded, and so has one over another term
C6_Witness ==
    \E l \in loans :
        /\ l.loan_amount = Rat(100000)
        /\ l.interest_rate = 12
        /\ l.loan_period = 12
        /\ money(l.total_repayment) = 11200000

\* C7: a savings_deposits or loans row keeps every field from its insertion
\* to its deletion, and displaying the amortization schedule and the
\* outstanding balance writes nothing to the store.
C7_LedgerRowsImmutable ==
    [][/\ \A r \in savings_deposits :
             (\E q \in savings_deposits' : q.id = r.id) => r \in savings_deposits'
       /\ \A r \in loans : (\E q \in loans' : q.id = r.id) => r \in loans'
       /\ out'.op = "LoanHistory" => UNCHANGED store]_vars

\* the outstanding balance of a two-month loan at 1200 % has been displayed
\* (200,000/3 after the first installment) and its stored flat total is untouched
C7_Witness ==
    /\ out.op = "LoanHistory"
    /\ out.value = <<200000, 3>>
    /\ \E l \in loans :
          /\ l.loan_transaction_id = out.arg
          /\ l.total_repayment = Rat(1300000)
          /\ l.monthly_installment = Rat(650000)

C10_NoEscape == out.arg = "IntegrityError" => out.kind = "error"

\* C11: every payments row is created with status PENDING, and from then on
\* it is in the table unchanged, status PENDING, or has been removed by the
\* cascade of its member's deletion; no step sets a status to SUCCESS or FAILED.
C11_PaymentsStayPending ==
    [][/\ \A r \in payments' : r.status = "PENDING"
       /\ \A r \in payments :
             \/ r \in payments'
             \/ /\ out'.op = "DeleteMember"
                /\ out'.arg = r.member_id
                /\ ~ \E q \in payments' : q.id = r.id]_vars

\* a payment placeholder was recorded, and a later run of the page has
\* looked up a transaction to delete while the placeholder is in the table
C11_Witness ==
    /\ out.op \in {"DeleteSavings", "DeleteLoan"}
    /\ payments # {}
    /\ \A r \in payments : r.status = "PENDING"

\* C12: in every reachable state org_settings holds exactly one row, and its id
\* is 1; Save Settings changes fields of that row only, and no step inserts or
\* deletes a settings row.
C12_SettingsSingleton ==
    /\ Cardinality(org_settings) = 1
    /\ \A r \in org_settings : r.id = 1
    /\ out.op = "SaveSettings" => out.rows = 1

\* Save Settings has replaced the defaults, in a later run of the script
C12_Witness ==
    /\ out.op = "SaveSettings"
    /\ \E r \in org_settings : r.org_name = "Coop" /\ r.default_savings_rate = 5

\* C13: in every reachable state the users table has at least one row with
\* role admin, and every users row has role admin or teller.
C13_AdminExists ==
    /\ \E r \in users : r.role = "admin"
    /\ \A r \in users : r.role \in {"admin", "teller"}

\* a teller has been created, and Update Password has just rewritten the
\* seeded administrator's hash
C13_Witness ==
    /\ out.op = "UpdatePassword"
    /\ out.kind = "success"
    /\ out.arg = "admin"
    /\ \E r \in users : r.role = "teller"

\* C14: of two login attempts that both fail, one with a username that is not
\* in users and one with an existing username and a wrong password, the
\* message shown and the session state that results (no user set) are the same.
C14_LoginFailureUniform ==
    \A s \in Sessions, u1, u2 \in UsernameInputs, p1, p2 \in PasswordInputs :
        LET a == LoginResult(s, u1, p1)
            b == LoginResult(s, u2, p2)
        IN  ( /\ user[s] = NoUser
              /\ ~ \E r \in users : r.username = u1
              /\ \E r \in users : r.username = u2
              /\ a.out.kind # "success"
              /\ b.out.kind # "success" )
            => ( /\ a.out = b.out
                 /\ a.user = NoUser
                 /\ b.user = NoUser )

\* a login has just failed while two users exist, one of them with a password
\* the form can also get wrong, and a username nobody has can be typed
C14_Witness ==
    /\ out.op = "Login"
    /\ out.kind = "error"
    /\ user[out.sess] = NoUser
    /\ \E r \in users : r.username = "bob"
    /\ \E u \in UsernameInputs : ~ \E r \in users : r.username = u
    /\ \E r \in users, p \in PasswordInputs :
          verify_password(p, r.password_hash) = "False"

\* C15: verify_password never raises: on a stored text that is not a
\* well-formed pbkdf2_sha256$<iterations>$<salt>$<key> it returns False, so a
\* login against any users row ends in the success or the error message, and
\* verify_password(q, hash_password(p)) is True exactly when q = p.
C15_VerifyNeverRaises ==
    /\ out.op = "Login" => out.kind \in {"success", "error"}
    /\ \A p, q \in PasswordInputs, salt \in Salts :
          verify_password(q, hash_password(p, salt)) = IF q = p THEN "True" ELSE "False"

\* C16: the schedule displayed for a loan of principal P, annual rate r and
\* term m has exactly m installments numbered 1..m in order, the same payment
\* on each, due dates 30 days apart from the start date on, and for each k
\* interest_k = balance_(k-1) * (r/100)/12 with balance_0 = P, principal_k =
\* payment - interest_k and balance_k = max(0, balance_(k-1) - principal_k);
\* P = 100,000 and r = 12 give a first interest of 1,000.
C16_ScheduleShape ==
    out.op = "LoanHistory" =>
        LET P == selected_row.loan_amount
            m == selected_row.loan_period
            i == Norm(selected_row.interest_rate, 100 * 12)
            bal(k) == IF k = 0 THEN P ELSE schedule[k].balance
        IN  /\ Len(schedule) = m
            /\ \A k \in 1..m :
                  /\ schedule[k].installment = k
                  /\ schedule[k].payment = schedule[1].payment
                  /\ schedule[k].due_date = selected_row.loan_date + 30 * (k - 1)
                  /\ schedule[k].interest = RatMul(bal(k - 1), i)
                  /\ schedule[k].principal = RatSub(schedule[k].payment, schedule[k].interest)
                  /\ schedule[k].balance =
                         IF RatLe(schedule[k].principal, bal(k - 1))
                         THEN RatSub(bal(k - 1), schedule[k].principal)
                         ELSE Rat(0)
            /\ (P = Rat(100000) /\ selected_row.interest_rate = 12)
                   => schedule[1].interest = Rat(1000)

\* the schedule of the two-month loan of 100,000 at 12 % has been displayed
C16_Witness ==
    /\ out.op = "LoanHistory"
    /\ selected_row.loan_amount = Rat(100000)
    /\ selected_row.interest_rate = 12
    /\ Len(schedule) = 2
    /\ schedule[1].interest = Rat(1000)
    /\ schedule[2].due_date = schedule[1].due_date + 30

\* C17: the principal portions of the m installments of a displayed schedule
\* add up to the principal P to within 1 currency unit, and the balance
\* recorded on the final installment is exactly 0 (in exact arithmetic, and as
\* the float the code computes for a zero-rate loan).
C17_PaysOff ==
    out.op = "LoanHistory" =>
        LET P == selected_row.loan_amount
            m == selected_row.loan_period
            RECURSIVE paid(_)
            paid(k) == IF k = 0 THEN Rat(0)
                       ELSE RatAdd(paid(k - 1), schedule[k].principal)
            gap == RatSub(paid(m), P)
        IN  /\ RatLe(gap, Rat(1))
            /\ RatLe(Rat(-1), gap)
            /\ schedule[m].balance = Rat(0)
            /\ selected_row.interest_rate = 0 =>
                   ZeroRateScheduleF64(P, m)[m].balance = F64Zero

\* C18: the schedule displayed for a loan at annual rate 0 gives every
\* installment the payment P / m exactly and an interest portion of 0, so the
\* principal portion of each installment equals its payment.
C18_ZeroRateSchedule ==
    (out.op = "LoanHistory" /\ selected_row.interest_rate = 0) =>
        \A k \in 1..Len(schedule) :
            /\ schedule[k].payment[1] * selected_row.loan_period * selected_row.loan_amount[2]
                   = selected_row.loan_amount[1] * schedule[k].payment[2]
            /\ schedule[k].interest = Rat(0)
            /\ schedule[k].principal = schedule[k].payment

\* the schedule of the three-month loan of 1,000 at 0 % has been displayed
C18_Witness ==
    /\ out.op = "LoanHistory"
    /\ selected_row.interest_rate = 0
    /\ Len(schedule) = 3
    /\ schedule[3].payment = <<1000, 3>>

\* C19: the outstanding balance displayed for a loan as of date X is the
\* balance of the last installment of its schedule due on or before X, and the
\* original principal when X is before the first due date; it does not
\* increase as X increases, and displaying it leaves the store as it was.
C19_OutstandingBalance ==
    [][out'.op = "LoanHistory" =>
          \A X \in Dates : \A pick \in members_df[out'.sess] : \A l \in loans :
              LoanHistory(out'.sess, pick, l, X) =>
                  LET sch == amortization_schedule(l.loan_amount, l.interest_rate,
                                                   l.loan_period, l.loan_date)
                      m == Len(sch)
                      seen == {k \in 1..m : sch[k].due_date <= X}
                      at(Y) == OutstandingBalance(sch, Y, l.loan_amount)
                      days == Dates \cup {sch[k].due_date : k \in 1..m}
                                    \cup {l.loan_date - 1}
                  IN  /\ seen = {} => out'.value = l.loan_amount
                      /\ \A k \in seen :
                            (\A j \in seen : j <= k) => out'.value = sch[k].balance
                      /\ \A Y, Z \in days : Y <= Z => RatLe(at(Z), at(Y))
                      /\ UNCHANGED store]_vars

\* the outstanding balance of the two-month loan taken one installment step
\* ago has been displayed as of today, when both installments are due: 0
C19_Witness ==
    /\ out.op = "LoanHistory"
    /\ selected_row.loan_period = 2
    /\ selected_row.loan_date = Today - DUE_STEP_DAYS
    /\ schedule[2].due_date = Today
    /\ out.value = Rat(0)
    /\ schedule[1].balance # Rat(0)

\* C20: compound_amount with an annual rate <= 0 returns exactly P for either
\* compounding frequency and any two dates in either order, so the accrued
\* interest the calculator shows at such a rate, summed deposit by deposit
\* over the member's deposits, is exactly 0.
C20_ZeroRateAccrual ==
    [][out'.op = "InterestCalculator" =>
          /\ \A r \in savings_deposits : \A f \in Frequencies :
                \A start, end \in Dates, rate \in {-1, 0} :
                    compound_amount(r.amount, rate, start, end, f) = r.amount
          /\ \A rate \in AnnualRateInputs, f \in Frequencies, d \in Dates :
                \A pick \in members_df[out'.sess] :
                    (rate <= 0 /\ InterestCalculator(out'.sess, pick, rate, f, d))
                        => out'.value = Rat(0)]_vars

\* the calculator has shown the interest of a deposit dated today as of the
\* day before, which is negative at a positive rate and 0 at rate 0
C20_Witness ==
    /\ out.op = "InterestCalculator"
    /\ out.value = Rat(0)
    /\ \E r \in savings_deposits :
          /\ r.member_id = out.arg
          /\ r.date = Today
          /\ compound_amount(r.amount, 36500, r.date, Today - 1, "Daily") # r.amount

\* C21: no page action runs in a session that has no logged-in user: a session
\* is past require_auth only while it has a user, every step that changes a
\* table or shows the result of a page action is a step of a session that is
\* logged in and on a page, a session's user is set only by a login whose
\* username is in users and whose password verifies against that row's
\* stored hash, and a session that has lost its user was idle and stays idle.
C21_AuthenticationGate ==
    [][/\ \A s \in Sessions : pc'[s] # "idle" => user'[s] # NoUser
       /\ store' # store =>
              \E s \in Sessions :
                  user[s] # NoUser /\ pc[s] \in Pages /\ pc'[s] # pc[s]
       /\ (out' # NoOut /\ out'.op # "Login") =>
              user[out'.sess] # NoUser /\ pc[out'.sess] \in Pages
       /\ \A s \in Sessions :
              (user'[s] # user[s] /\ user'[s] # NoUser) =>
                  /\ user[s] = NoUser
                  /\ \E u \in UsernameInputs, p \in PasswordInputs :
                        /\ login_box(s, u, p)
                        /\ \E row \in users :
                              /\ row.username = u
                              /\ verify_password(p, row.password_hash) = "True"
                              /\ user'[s] = [username |-> row.username,
                                             role |-> row.role]
       /\ \A s \in Sessions :
              (user[s] # NoUser /\ user'[s] = NoUser) =>
                  pc[s] = "idle" /\ pc'[s] = "idle"]_vars

\* a session that worked on the pages has logged out, and its next login
\* attempt has failed: it has no user and is on no page
C21_Witness ==
    /\ members # {}
    /\ out.op = "Login"
    /\ out.kind = "error"
    /\ user[out.sess] = NoUser
    /\ pc[out.sess] = "idle"
    /\ \A s \in Sessions : user[s] = NoUser

\* C22: once a Register Member or Delete Member has committed, the next
\* load_members_df() of any session, under any interleaving of the sessions
\* that share the cache, returns exactly the rows of the members table: every
\* member the frame offers in a selection box is in the store and no
\* registered member is missing from the frame.
C22_CacheCoherent ==
    [][\A s \in Sessions :
          (pc[s] = "idle" /\ pc'[s] \in Pages \ {"Admin"}) =>
              /\ members_df'[s] = load_members_df
              /\ members_df'[s] = members']_vars

\* C23: in every reachable state each savings_deposits row, whether Record
\* Deposit or Post Interest as Deposit (at any annual rate >= 0 and any as-of
\* date up to today, over any existing deposits) inserted it, has amount > 0
\* and a non-empty transaction_id.
C23_DepositsPositive ==
    \A r \in savings_deposits :
        /\ ~ RatLe(r.amount, Rat(0))
        /\ r.transaction_id # ""
====
